---- MODULE Spec2Model ----
(***************************************************************************)
(* A model of artisan's artifact store (python/artisan/_artifacts.py).     *)
(*                                                                         *)
(* Part I models artifact construction: the three constructor forms        *)
(* (_artifact_from_path, _artifact_from_conf, _artifact_from_path_and_conf)*)
(* and _build, run by several callers that share one root directory and    *)
(* coordinate only through it.  Every file-system call of the source       *)
(* (glob, _read_meta, exists, is_dir, mkdir, write_text) is one atomic     *)
(* step; callers interleave between the calls.                             *)
(*                                                                         *)
(* Part II models the array-file write path (_write_h5) and the read that  *)
(* follows it.                                                             *)
(***************************************************************************)
EXTENDS Integers, Sequences, FiniteSets, TLC

(***************************************************************************)
(* Bounds of the model.                                                    *)
(***************************************************************************)
MaxMade == 1
RecursionLimit == 3
NCallers == 2      \* concurrent callers
MaxIdx   == 1      \* generated directory names run over counters 0..MaxIdx
MaxCalls == 3      \* constructor calls started over one behaviour
MaxLen   == 3      \* longest array written to an array file
MaxOps    == 3      \* item and attribute operations over one behaviour
MaxWrites == 3     \* array writes over one behaviour

Callers == 1 .. NCallers

(***************************************************************************)
(* The scope registry and the type hierarchy the callers use.              *)
(* "Artifact" is the base class and declares no build operation; "A"       *)
(* derives from it and declares one, "B" derives from "A", and "C" derives *)
(* from "Artifact" and declares none.  "U" is a name a metadata record may *)
(* hold that the registry does not know.  BuildClasses are the classes the *)
(* callers construct by configuration.                                     *)
(***************************************************************************)
Registered   == {"Artifact", "A", "B", "C"}
BuildClasses == {"A", "C"}
TypeNames    == Registered \cup {"U"}
Confs        == {1, 2}

NoType == "none"

\* get_scope().get(name, None)
ScopeGet(name) == IF name \in Registered THEN name ELSE NoType

\* issubclass(t, c)
IsSubclass(t, c) ==
    \/ t = c
    \/ c = "Artifact"
    \/ t = "B" /\ c = "A"

\* hasattr(cls, 'build') / callable(getattr(type(artifact), 'build', None))
HasBuild(cls) == cls \in {"A", "B"}

(***************************************************************************)
(* Paths.  Every path is a direct entry of the root directory: the names   *)
(* _new_artifact_path generates, <type>_<counter>, and one entry "x" that  *)
(* no generated name equals.                                               *)
(***************************************************************************)
\* root / f'{type_name}_{i:04x}'
GenPath(t, i) == [name |-> t, idx |-> i]

X0     == [name |-> "x", idx |-> 0]
Paths  == [name : BuildClasses, idx : 0 .. MaxIdx] \cup {X0}
NoPath == [name |-> "none", idx |-> 0]

(***************************************************************************)
(* Specs and metadata records.                                             *)
(***************************************************************************)
NoSpec    == [type |-> NoType, conf |-> 0]
Specs     == [type : BuildClasses, conf : Confs]

\* Namespace(type=_identify(type(artifact)), **artifact.conf)
CandidateSpec(cls, conf) == [type |-> cls, conf |-> conf]

NoFile      == [spec |-> NoSpec, status |-> "nofile"]
DefaultMeta == [spec |-> NoSpec, status |-> "done"]
Statuses    == {"running", "done", "stopped"}

VARIABLES
    kind,       \* kind[p]: "absent", "dir" or "file": what the path holds
    metaFile,   \* metaFile[p]: the record in p/_meta.yaml, or NoFile
    proc,       \* proc[c]: the constructor call caller c is executing
    ncalls,     \* constructor calls started so far
    owner,      \* owner[p]: the calls whose mkdir of p succeeded
    writers,    \* writers[p]: the calls that wrote p/_meta.yaml
    builders,   \* builders[p]: the calls that ran the build operation at p
    nbuilds,    \* nbuilds[s]: invocations of the build operation for spec s
    okPath,     \* okPath[s]: path of the first configuration-only success
    lateBuilds, \* lateBuilds[s]: builds for s invoked after that success
    h5,         \* what self.path holds at <key>.h5
    wrote,      \* the array most recently written to key, or NoArray
    got,        \* what the most recent read of key returned, or NoArray
    nwrites,    \* array writes and extends so far
    ext,        \* the rows handed to extend so far, in call order
    extTypes,   \* the element types of the arrays handed to extend
    tree,       \* tree[n]: what an artifact's directory holds under name n
    cached,     \* _cached_keys of the artifact object
    lastOp,     \* the item or attribute operation performed last
    nops,       \* item and attribute operations so far
    ctx,        \* ctx[c]: context.root_dir in thread c, or Unset
    rootFS,     \* rootFS[r][p]: the record of entry p of root r, or NoDir
    lastCall,   \* the root-directory operation performed last
    ns,         \* ns[k]: the value a Namespace holds under key k, or Missing
    nsLast,     \* the Namespace operation performed last
    made,       \* the directories built by constructions that took a path
    lastNew,    \* the construction with a path performed last
    rdFile,     \* the state of the array file that the readers open
    rd          \* rd[c]: the array-file read that thread c is executing

fsVars    == <<kind, metaFile>>
ghostVars == <<owner, writers, builders, nbuilds, okPath, lateBuilds>>
ctorVars  == <<kind, metaFile, proc, ncalls, owner, writers, builders,
               nbuilds, okPath, lateBuilds>>
h5Vars    == <<h5, wrote, got, nwrites, ext, extTypes>>
treeVars  == <<tree, cached, lastOp, nops>>
rootVars  == <<ctx, rootFS, lastCall>>
nsVars    == <<ns, nsLast>>
pathVars  == <<made, lastNew>>
readVars  == <<rdFile, rd>>
restVars  == <<h5Vars, treeVars, rootVars, nsVars, pathVars, readVars>>
vars      == <<kind, metaFile, proc, ncalls, owner, writers, builders,
               nbuilds, okPath, lateBuilds, h5, wrote, got, nwrites, ext,
               extTypes, tree, cached, lastOp, nops, ctx, rootFS, lastCall,
               ns, nsLast, made, lastNew, rdFile, rd>>

(***************************************************************************)
(* _read_meta: the record of p/_meta.yaml, or the default record when the  *)
(* file is missing (or p is no directory), does not parse, or does not     *)
(* parse to a mapping with a mapping under spec and a string under status. *)
(* What a file holds that is no such record is written with marks in the   *)
(* place of the missing or ill-typed parts.                                *)
(***************************************************************************)
MissingSpec == [type |-> "missing", conf |-> 0]   \* the record has no spec
ScalarSpec  == [type |-> "scalar", conf |-> 0]    \* spec is no mapping
Unparsable  == [spec |-> NoSpec, status |-> "unparsable"]

MalformedMetas ==
    {Unparsable,
     [spec |-> MissingSpec, status |-> "running"],
     [spec |-> ScalarSpec, status |-> "done"],
     [spec |-> CandidateSpec("B", 1), status |-> "missing"],
     [spec |-> CandidateSpec("A", 1), status |-> "notastring"]}

\* The three assertions of _read_meta hold of what the file parses to.
WellFormed(m) ==
    /\ m.status \notin {"nofile", "unparsable"}
    /\ m.spec.type \notin {"missing", "scalar"}
    /\ m.status \notin {"missing", "notastring"}

ReadMeta_FileOnly(p) ==
    IF kind[p] = "dir" /\ metaFile[p] # NoFile THEN metaFile[p]
    ELSE DefaultMeta

ReadMeta(p) ==
    IF kind[p] = "dir" /\ WellFormed(metaFile[p]) THEN metaFile[p]
    ELSE DefaultMeta

\* path.exists()
Exists(p) == kind[p] # "absent"

(***************************************************************************)
(* One constructor call.  pc is the place in the source the call has       *)
(* reached; out is "none" while it runs, "ok" when it returned an          *)
(* artifact, and otherwise the failure it raised.  path is the path the    *)
(* artifact is bound to, todo the root entries the scan has yet to visit,  *)
(* cur the entry the call last waited on, meta the record the path-only    *)
(* form read, and exc how the build operation ended.  id numbers the       *)
(* calls; found records that the path-and-configuration form saw its path  *)
(* exist, and built that the call invoked the build operation.             *)
(***************************************************************************)
Failures == {"Exception", "KeyboardInterrupt"}

IdleProc == [pc |-> "idle", id |-> 0, form |-> "none", cls |-> NoType,
             conf |-> 0, path |-> NoPath, found |-> FALSE, cur |-> NoPath,
             todo |-> {}, meta |-> DefaultMeta, exc |-> "none",
             out |-> "none", built |-> FALSE]

SpecOf(c) == CandidateSpec(proc[c].cls, proc[c].conf)

Goto(c, label) == proc' = [proc EXCEPT ![c].pc = label]

\* The call returns the artifact, bound to path p.
Return(c, p) ==
    proc' = [proc EXCEPT ![c].pc = "ret", ![c].out = "ok", ![c].path = p,
                         ![c].todo = {}, ![c].meta = DefaultMeta]

\* The call raises failure e.
Raise(c, e) ==
    proc' = [proc EXCEPT ![c].pc = "err", ![c].out = e, ![c].todo = {},
                         ![c].meta = DefaultMeta]

(***************************************************************************)
(* Artifact.__new__: the three constructor forms.                          *)
(***************************************************************************)
StartPath(c, Classes, Targets) ==
    /\ proc[c].pc = "idle"
    /\ ncalls < MaxCalls
    /\ \E cls \in Classes, p \in Targets :
         proc' = [proc EXCEPT ![c] = [IdleProc EXCEPT !.pc = "p_meta", !.id = ncalls + 1,
                     !.form = "path", !.cls = cls, !.path = p]]
    /\ ncalls' = ncalls + 1
    /\ UNCHANGED <<fsVars, ghostVars>>
    /\ UNCHANGED restVars

StartConf(c, Wanted) ==
    /\ proc[c].pc = "idle"
    /\ ncalls < MaxCalls
    /\ \E cls \in BuildClasses, conf \in Confs :
         /\ CandidateSpec(cls, conf) \in Wanted
         /\ proc' = [proc EXCEPT ![c] = [IdleProc EXCEPT !.pc = "c_glob", !.id = ncalls + 1,
                     !.form = "conf", !.cls = cls, !.conf = conf]]
    /\ ncalls' = ncalls + 1
    /\ UNCHANGED <<fsVars, ghostVars>>
    /\ UNCHANGED restVars

StartPathConf(c, Wanted, Targets) ==
    /\ proc[c].pc = "idle"
    /\ ncalls < MaxCalls
    /\ \E cls \in BuildClasses, conf \in Confs, p \in Targets :
         /\ CandidateSpec(cls, conf) \in Wanted
         /\ proc' = [proc EXCEPT ![c] = [IdleProc EXCEPT !.pc = "pc_exists", !.id = ncalls + 1,
                     !.form = "pathconf", !.cls = cls, !.conf = conf,
                     !.path = p]]
    /\ ncalls' = ncalls + 1
    /\ UNCHANGED <<fsVars, ghostVars>>
    /\ UNCHANGED restVars

(***************************************************************************)
(* _artifact_from_path.                                                    *)
(***************************************************************************)
\* spec = _read_meta(path).spec or {}
PathReadMeta(c) ==
    /\ proc[c].pc = "p_meta"
    /\ proc' = [proc EXCEPT ![c].pc = "p_check",
                            ![c].meta = ReadMeta(proc[c].path)]
    /\ UNCHANGED <<fsVars, ghostVars, ncalls>>
    /\ UNCHANGED restVars

WrongType_Exact(spec, cls) ==
    LET written_type == ScopeGet(spec.type)
    IN  written_type # NoType /\ written_type # cls

\* written_type is not None and not issubclass(written_type, cls)
WrongType(spec, cls) ==
    LET written_type == ScopeGet(spec.type)
    IN  written_type # NoType /\ ~IsSubclass(written_type, cls)

PathCheck(c) ==
    LET p == proc[c].path
        m == proc[c].meta
    IN  /\ proc[c].pc = "p_check"
        /\ IF kind[p] = "file" THEN Raise(c, "is_a_file")
           ELSE IF HasBuild(proc[c].cls) /\ kind[p] # "dir"
                THEN Raise(c, "does_not_exist")
           ELSE IF WrongType(m.spec, proc[c].cls)
                THEN Raise(c, "wrong_type")
           ELSE Return(c, p)
        /\ UNCHANGED <<fsVars, ghostVars, ncalls>>
        /\ UNCHANGED restVars

(***************************************************************************)
(* _artifact_from_conf.                                                    *)
(***************************************************************************)
\* Path(get_root_dir()).glob('*'): the entries of the root, listed once
ConfGlob(c) ==
    /\ proc[c].pc = "c_glob"
    /\ proc' = [proc EXCEPT ![c].pc = "c_next",
                            ![c].todo = {p \in Paths : Exists(p)}]
    /\ UNCHANGED <<fsVars, ghostVars, ncalls>>
    /\ UNCHANGED restVars

SpecMatches_Identity(m, spec) == FALSE

\* meta.spec == spec
SpecMatches(m, spec) == m.spec = spec

AfterMatch_WaitOnce(c, p, m, rest) ==
    IF m.status = "running" /\ proc[c].pc # "c_poll"
    THEN proc' = [proc EXCEPT ![c].pc = "c_poll", ![c].cur = p,
                              ![c].todo = rest]
    ELSE IF m.status \in {"running", "done"}
    THEN proc' = [proc EXCEPT ![c].pc = "ret", ![c].out = "ok",
                              ![c].path = p, ![c].todo = {}]
    ELSE proc' = [proc EXCEPT ![c].pc = "c_next", ![c].todo = rest]

AfterMatch_StopAtStopped(c, p, m, rest) ==
    IF m.status = "running"
    THEN proc' = [proc EXCEPT ![c].pc = "c_poll", ![c].cur = p,
                              ![c].todo = rest]
    ELSE IF m.status = "done"
    THEN Return(c, p)
    ELSE proc' = [proc EXCEPT ![c].pc = "c_next", ![c].todo = {}]

\* What the scan does with a matching entry whose record it last read as m:
\* wait while it is running, return it when it is done, go on otherwise.
AfterMatch(c, p, m, rest) ==
    IF m.status = "running"
    THEN proc' = [proc EXCEPT ![c].pc = "c_poll", ![c].cur = p,
                              ![c].todo = rest]
    ELSE IF m.status = "done"
    THEN Return(c, p)
    ELSE proc' = [proc EXCEPT ![c].pc = "c_next", ![c].todo = rest]

\* One iteration of the for loop: the entries come in no particular order.
ConfReadEntry(c) ==
    /\ proc[c].pc = "c_next"
    /\ \E p \in proc[c].todo :
         LET m    == ReadMeta(p)
             rest == proc[c].todo \ {p}
         IN  IF SpecMatches(m, SpecOf(c))
             THEN AfterMatch(c, p, m, rest)
             ELSE proc' = [proc EXCEPT ![c].todo = rest]
    /\ UNCHANGED <<fsVars, ghostVars, ncalls>>
    /\ UNCHANGED restVars

\* sleep(0.01); meta = _read_meta(path)
ConfPoll(c) ==
    /\ proc[c].pc = "c_poll"
    /\ AfterMatch(c, proc[c].cur, ReadMeta(proc[c].cur), proc[c].todo)
    /\ UNCHANGED <<fsVars, ghostVars, ncalls>>
    /\ UNCHANGED restVars

(***************************************************************************)
(* _new_artifact_path: the first counter whose name is not an entry of the *)
(* root.  The counters are probed in increasing order and no caller        *)
(* removes an entry, so the probes amount to one look at the root at the   *)
(* time of the last one.                                                   *)
(***************************************************************************)
FreeIdx(t) == {i \in 0 .. MaxIdx : ~Exists(GenPath(t, i))}

NewArtifactPath(t) ==
    GenPath(t, CHOOSE i \in FreeIdx(t) : \A j \in FreeIdx(t) : i <= j)

\* The for loop's else branch: no entry was returned.
ConfNewPath(c) ==
    /\ proc[c].pc = "c_next"
    /\ proc[c].todo = {}
    /\ FreeIdx(proc[c].cls) # {}
    /\ proc' = [proc EXCEPT ![c].pc = "mkdir",
                            ![c].path = NewArtifactPath(proc[c].cls)]
    /\ UNCHANGED <<fsVars, ghostVars, ncalls>>
    /\ UNCHANGED restVars

(***************************************************************************)
(* _artifact_from_path_and_conf.                                           *)
(***************************************************************************)
\* if path.exists(): ... else: _build(artifact)
PCExists(c) ==
    /\ proc[c].pc = "pc_exists"
    /\ IF Exists(proc[c].path)
       THEN proc' = [proc EXCEPT ![c].pc = "pc_meta", ![c].found = TRUE]
       ELSE Goto(c, "mkdir")
    /\ UNCHANGED <<fsVars, ghostVars, ncalls>>
    /\ UNCHANGED restVars

Incompatible_TypeOnly(m, spec) == m.spec.type # spec.type

\* meta.spec != {'type': _identify(type(artifact)), **artifact.conf}
Incompatible(m, spec) == m.spec # spec

PCReadMeta(c) ==
    /\ proc[c].pc = "pc_meta"
    /\ LET m == ReadMeta(proc[c].path)
       IN  IF Incompatible(m, SpecOf(c)) THEN Raise(c, "incompatible_spec")
           ELSE IF m.status = "running"
                THEN proc' = [proc EXCEPT ![c].pc = "pc_poll",
                                          ![c].cur = proc[c].path]
           ELSE Goto(c, "pc_status")
    /\ UNCHANGED <<fsVars, ghostVars, ncalls>>
    /\ UNCHANGED restVars

PCPoll(c) ==
    /\ proc[c].pc = "pc_poll"
    /\ LET m == ReadMeta(proc[c].path)
       IN  IF m.status = "running" THEN UNCHANGED proc
           ELSE Goto(c, "pc_status")
    /\ UNCHANGED <<fsVars, ghostVars, ncalls>>
    /\ UNCHANGED restVars

StoppedMidBuild_Running(m) == m.status = "running"

\* if artifact.meta.status == 'stopped': raise ...
StoppedMidBuild(m) == m.status = "stopped"

PCStatus(c) ==
    /\ proc[c].pc = "pc_status"
    /\ LET m == ReadMeta(proc[c].path)
       IN  IF StoppedMidBuild(m) THEN Raise(c, "stopped_mid_build")
           ELSE Return(c, proc[c].path)
    /\ UNCHANGED <<fsVars, ghostVars, ncalls>>
    /\ UNCHANGED restVars

(***************************************************************************)
(* _build.                                                                 *)
(***************************************************************************)
MkdirFails_ExistOk(p) == FALSE

MkdirFails_FileOnly(p) == kind[p] = "file"

\* artifact.path.mkdir(parents=True) raises FileExistsError
MkdirFails(p) == Exists(p)

Mkdir(c) ==
    LET p == proc[c].path
    IN  /\ proc[c].pc = "mkdir"
        /\ IF MkdirFails(p)
           THEN /\ Raise(c, "FileExistsError")
                /\ UNCHANGED <<fsVars, ghostVars>>
           ELSE /\ kind' = [kind EXCEPT ![p] = "dir"]
                /\ owner' = [owner EXCEPT ![p] = @ \cup {proc[c].id}]
                /\ Goto(c, "wrun")
                /\ UNCHANGED <<metaFile, writers, builders, nbuilds, okPath,
                               lateBuilds>>
        /\ UNCHANGED ncalls
        /\ UNCHANGED restVars

\* write_meta(spec=spec, status=...): _meta.yaml is overwritten in full
WriteMeta(c, status) ==
    /\ metaFile' = [metaFile EXCEPT
                      ![proc[c].path] = [spec |-> SpecOf(c), status |-> status]]
    /\ writers' = [writers EXCEPT ![proc[c].path] = @ \cup {proc[c].id}]

WriteRunning(c) ==
    /\ proc[c].pc = "wrun"
    /\ WriteMeta(c, "running")
    /\ Goto(c, "build")
    /\ UNCHANGED <<kind, ncalls, owner, builders, nbuilds, okPath, lateBuilds>>
    /\ UNCHANGED restVars

\* artifact.build(*build_args): returns, or raises one of Failures
RunBuild(c) ==
    /\ proc[c].pc = "build"
    /\ IF HasBuild(proc[c].cls)
       THEN /\ \E r \in {"ok"} \cup Failures :
                 proc' = [proc EXCEPT ![c].pc = "wfinal", ![c].exc = r,
                                      ![c].built = TRUE]
            /\ builders' = [builders EXCEPT
                              ![proc[c].path] = @ \cup {proc[c].id}]
            /\ nbuilds' = [nbuilds EXCEPT ![SpecOf(c)] = @ + 1]
            /\ lateBuilds' = IF okPath[SpecOf(c)] # NoPath
                             THEN [lateBuilds EXCEPT ![SpecOf(c)] = @ + 1]
                             ELSE lateBuilds
       ELSE /\ proc' = [proc EXCEPT ![c].pc = "wfinal", ![c].exc = "ok"]
            /\ UNCHANGED <<builders, nbuilds, lateBuilds>>
    /\ UNCHANGED <<fsVars, ncalls, owner, writers, okPath>>
    /\ UNCHANGED restVars

Caught_ExceptionOnly(e) == e = "Exception"

\* The failures the except clause of _build catches: BaseException, that is
\* every one.
Caught(e) == e \in Failures

\* The status _build records once the build operation has ended with r.
FinalStatus(r) == IF r = "ok" THEN "done" ELSE "stopped"

WriteFinal(c) ==
    /\ proc[c].pc = "wfinal"
    /\ IF proc[c].exc = "ok" \/ Caught(proc[c].exc)
       THEN WriteMeta(c, FinalStatus(proc[c].exc))
       ELSE UNCHANGED <<metaFile, writers>>
    /\ IF proc[c].exc = "ok"
       THEN Return(c, proc[c].path)
       ELSE Raise(c, proc[c].exc)
    /\ UNCHANGED <<kind, ncalls, owner, builders, nbuilds, okPath, lateBuilds>>
    /\ UNCHANGED restVars

(***************************************************************************)
(* The constructor call is over: the caller has its artifact or failure.   *)
(***************************************************************************)
Finish(c) ==
    /\ proc[c].pc \in {"ret", "err"}
    /\ okPath' = IF /\ proc[c].form = "conf"
                    /\ proc[c].out = "ok"
                    /\ okPath[SpecOf(c)] = NoPath
                 THEN [okPath EXCEPT ![SpecOf(c)] = proc[c].path]
                 ELSE okPath
    /\ proc' = [proc EXCEPT ![c] = IdleProc]
    /\ UNCHANGED <<fsVars, ncalls, owner, writers, builders, nbuilds,
                   lateBuilds>>
    /\ UNCHANGED restVars

(***************************************************************************)
(* The initial root directory.  The generated names are free; the entry    *)
(* "x" with counter 0 is absent, a plain file, a directory without a       *)
(* metadata record, or a directory some other program run left behind      *)
(* with a well-formed record.                                              *)
(***************************************************************************)
ForeignMetas ==
    {[spec |-> [type |-> t, conf |-> 1], status |-> "done"] :
        t \in {"B", "C", "U"}}

InitGhost ==
    /\ proc = [c \in Callers |-> IdleProc]
    /\ ncalls = 0
    /\ owner = [p \in Paths |-> {}]
    /\ writers = [p \in Paths |-> {}]
    /\ builders = [p \in Paths |-> {}]
    /\ nbuilds = [s \in Specs |-> 0]
    /\ okPath = [s \in Specs |-> NoPath]
    /\ lateBuilds = [s \in Specs |-> 0]

NoArray == [dtype |-> "none", shape |-> <<>>, data |-> <<>>]
NoEntry == [kind |-> "absent", arr |-> NoArray]

(***************************************************************************)
(* Names of directory entries and item keys are strings, written as        *)
(* sequences of characters.                                                *)
(***************************************************************************)
Dot       == <<".">>
H5Suffix  == <<".", "h", "5">>
MetaName  == <<"_", "m", "e", "t", "a", ".", "y", "a", "m", "l">>

\* The item keys and attribute names used by the callers.
KeyY      == <<"y">>
KeyYT     == <<"y", ".", "t">>
KeyY__T   == <<"y", "_", "_", "t">>
KeyKeys   == <<"k", "e", "y", "s">>
KeyHidden == <<"_", "z">>
Keys      == {KeyY, KeyYT, KeyY__T, KeyKeys, KeyHidden}

\* The keys of the entries of a nested artifact.
KeyA      == <<"a">>
KeyB      == <<"b">>
SubKeys   == {KeyA, KeyB}

\* Position of the last "." of name n, or 0
LastDot(n) ==
    LET dots == {i \in 1 .. Len(n) : n[i] = "."}
    IN  IF dots = {} THEN 0 ELSE CHOOSE i \in dots : \A j \in dots : j <= i

\* PurePath.suffix: the last "."-separated part of the name with its dot,
\* unless the only dot leads or ends the name
Suffix(n) ==
    LET d == LastDot(n)
    IN  IF 1 < d /\ d < Len(n) THEN SubSeq(n, d, Len(n)) ELSE <<>>

\* PurePath.with_suffix('.h5')
WithSuffixH5(n) == SubSeq(n, 1, Len(n) - Len(Suffix(n))) \o H5Suffix

IsPublic_All(n) == Len(n) > 0

\* glob('[!_]*'): the names whose first character is not "_"
IsPublic(n) == Len(n) > 0 /\ n[1] # "_"

\* p.name[:-3] if p.suffix == '.h5' else p.name
FieldName(n) ==
    IF Suffix(n) = H5Suffix THEN SubSeq(n, 1, Len(n) - 3) ELSE n

RECURSIVE ReplaceDunder(_)
\* key.replace('__', '.'): non-overlapping occurrences, from the left
ReplaceDunder(k) ==
    IF k = <<>> THEN <<>>
    ELSE IF Len(k) >= 2 /\ k[1] = "_" /\ k[2] = "_"
    THEN Dot \o ReplaceDunder(SubSeq(k, 3, Len(k)))
    ELSE <<k[1]>> \o ReplaceDunder(Tail(k))

\* The names an artifact's directory, and a nested artifact's directory,
\* can hold in this model.
DiskNames == Keys \cup {WithSuffixH5(k) : k \in Keys} \cup {MetaName}
SubNames  == {WithSuffixH5(k) : k \in SubKeys} \cup {MetaName}

\* An entry of a nested artifact's directory: absent, an array file or a
\* plain file.  An entry of the artifact's directory is one of these or a
\* directory with entries of its own.
NoLeaf   == [kind |-> "absent", arr |-> NoArray]
FileLeaf == [kind |-> "file", arr |-> NoArray]
NoSub    == [n \in SubNames |-> NoLeaf]
NoNode   == [kind |-> "absent", arr |-> NoArray, sub |-> NoSub]
FileNode == [kind |-> "file", arr |-> NoArray, sub |-> NoSub]
DirNode(sub) == [kind |-> "dir", arr |-> NoArray, sub |-> sub]
LeafNode(e)  == [kind |-> e.kind, arr |-> e.arr, sub |-> NoSub]
LeafOf(node) == [kind |-> node.kind, arr |-> node.arr]

\* The values written through item and attribute operations: a path to a
\* file, a mapping from keys to arrays, or an array.
Arr1     == [dtype |-> "i8", shape |-> <<1>>, data |-> <<1>>]
Arr00    == [dtype |-> "i8", shape |-> <<2>>, data |-> <<0, 0>>]
ItemArrays == {Arr1, Arr00}
NoMap    == [k \in {} |-> NoArray]
Mappings == UNION {[ks -> ItemArrays] : ks \in SUBSET SubKeys}
PathVal    == [type |-> "path", arr |-> NoArray, map |-> NoMap]
ArrayVal(a) == [type |-> "array", arr |-> a, map |-> NoMap]
MapVal(m)  == [type |-> "mapping", arr |-> NoArray, map |-> m]
NoVal      == [type |-> "none", arr |-> NoArray, map |-> NoMap]
Values ==
    {PathVal} \cup {ArrayVal(a) : a \in ItemArrays}
              \cup {MapVal(m) : m \in Mappings}

NoOp == [op |-> "none", key |-> <<>>, val |-> NoVal]

\* The root directories: Path('.') and another.  context is a
\* threading.local: each thread has its own root_dir attribute, or none.
DefaultRoot == "."
Roots       == {DefaultRoot, "r1"}
Unset       == "unset"
None        == "None"
NoDir       == [spec |-> NoSpec, status |-> "absent"]
NoCall      == [op |-> "none", caller |-> 0, root |-> Unset, spec |-> NoSpec,
                path |-> NoPath, built |-> FALSE]

\* A Namespace: the keys written to it, one of them the name of a method
\* of dict, and the values; Missing marks a key the dict does not hold.
NsKeys  == {"a", "b", "keys"}
NsVals  == {"v1", "v2"}
Missing == "missing"
NoRead  == [op |-> "none", key |-> "none", val |-> "none"]

NsIdle ==
    /\ ns = [k \in NsKeys |-> Missing]
    /\ nsLast = NoRead

NoNew == [form |-> "none", caller |-> 0, given |-> <<>>, root |-> "none",
          path |-> <<>>, built |-> FALSE]

PathIdle ==
    /\ made = {}
    /\ lastNew = NoNew

\* No thread is reading, and there is no array file.
NoRd == [pc |-> "idle", depth |-> 0, out |-> "none"]

ReadIdle ==
    /\ rdFile = "absent"
    /\ rd = [c \in Callers |-> NoRd]

RootIdle ==
    /\ ctx = [c \in Callers |-> Unset]
    /\ rootFS = [r \in Roots |-> [p \in Paths |-> NoDir]]
    /\ lastCall = NoCall

TreeIdle ==
    /\ tree = [n \in DiskNames |-> NoNode]
    /\ cached = {}
    /\ lastOp = NoOp
    /\ nops = 0
    /\ RootIdle
    /\ NsIdle
    /\ PathIdle
    /\ ReadIdle

H5Idle ==
    /\ h5 = NoEntry
    /\ wrote = NoArray
    /\ got = NoArray
    /\ nwrites = 0
    /\ ext = <<>>
    /\ extTypes = {}

InitFS(Kinds, Metas) ==
    /\ \E k \in Kinds :
         kind = [p \in Paths |-> IF p = X0 THEN k ELSE "absent"]
    /\ \E m \in Metas :
         /\ m # NoFile => kind[X0] = "dir"
         /\ metaFile = [p \in Paths |-> IF p = X0 THEN m ELSE NoFile]

Init == InitFS({"absent", "dir"}, {NoFile}) /\ InitGhost /\ H5Idle /\ TreeIdle

(***************************************************************************)
(* Spec: any number of callers, each running one constructor call after    *)
(* another, interleaved at the file-system calls.                          *)
(***************************************************************************)
A0 == GenPath("A", 0)

CallSpecs   == {CandidateSpec("A", 1), CandidateSpec("A", 2),
                CandidateSpec("C", 1)}
CallTargets == {A0, X0}

Step(c) ==
    \/ StartPath(c, {"A", "C"}, CallTargets)
    \/ StartConf(c, CallSpecs)
    \/ StartPathConf(c, CallSpecs, CallTargets)
    \/ PathReadMeta(c)
    \/ PathCheck(c)
    \/ ConfGlob(c)
    \/ ConfReadEntry(c)
    \/ ConfPoll(c)
    \/ ConfNewPath(c)
    \/ PCExists(c)
    \/ PCReadMeta(c)
    \/ PCPoll(c)
    \/ PCStatus(c)
    \/ Mkdir(c)
    \/ WriteRunning(c)
    \/ RunBuild(c)
    \/ WriteFinal(c)
    \/ Finish(c)

Next == \E c \in Callers : Step(c)

Spec == Init /\ [][Next]_vars

(***************************************************************************)
(* SpecConf: the callers construct by configuration only, concurrently.    *)
(* SpecConfFair adds the fairness the polling loop has: a caller that is   *)
(* waiting on an entry keeps reading its record.                           *)
(***************************************************************************)
ConfStep(c) ==
    \/ StartConf(c, CallSpecs)
    \/ ConfGlob(c)
    \/ ConfReadEntry(c)
    \/ ConfPoll(c)
    \/ ConfNewPath(c)
    \/ Mkdir(c)
    \/ WriteRunning(c)
    \/ RunBuild(c)
    \/ WriteFinal(c)
    \/ Finish(c)

NextConf == \E c \in Callers : ConfStep(c)

SpecConf == Init /\ [][NextConf]_vars

SpecConfFair == SpecConf /\ \A c \in Callers : WF_vars(ConfPoll(c))

(***************************************************************************)
(* Sequential use: a call starts only when no other call is under way.     *)
(* SpecSeqConf has configuration-only calls alone; SpecSeq has the three   *)
(* forms, over a root that may hold a directory another run left behind.   *)
(***************************************************************************)
AllIdle == \A c \in Callers : proc[c].pc = "idle"

SeqConfStep(c) ==
    \/ AllIdle /\ StartConf(c, Specs)
    \/ ConfGlob(c)
    \/ ConfReadEntry(c)
    \/ ConfNewPath(c)
    \/ Mkdir(c)
    \/ WriteRunning(c)
    \/ RunBuild(c)
    \/ WriteFinal(c)
    \/ Finish(c)

NextSeqConf == \E c \in Callers : SeqConfStep(c)

InitSeq ==
    /\ InitFS({"absent", "file", "dir"}, {NoFile} \cup ForeignMetas)
    /\ InitGhost
    /\ H5Idle
    /\ TreeIdle

SpecSeqConf == InitSeq /\ [][NextSeqConf]_vars

SeqStep(c) ==
    \/ AllIdle /\ StartPath(c, Registered, {A0, X0})
    \/ AllIdle /\ StartConf(c, CallSpecs)
    \/ AllIdle /\ StartPathConf(c, CallSpecs, {A0, X0})
    \/ PathReadMeta(c)
    \/ PathCheck(c)
    \/ ConfGlob(c)
    \/ ConfReadEntry(c)
    \/ ConfNewPath(c)
    \/ PCExists(c)
    \/ PCReadMeta(c)
    \/ PCStatus(c)
    \/ Mkdir(c)
    \/ WriteRunning(c)
    \/ RunBuild(c)
    \/ WriteFinal(c)
    \/ Finish(c)

NextSeq == \E c \in Callers : SeqStep(c)

SpecSeq == InitSeq /\ [][NextSeq]_vars

(***************************************************************************)
(*                       Claims about construction                         *)
(***************************************************************************)
Ended(c) == proc[c].pc \in {"ret", "err"}

RecordOf(c, status) == [spec |-> SpecOf(c), status |-> status]

C2_AtMostOnce == \A s \in Specs : nbuilds[s] <= 1

(* C3 (Spec).  Build failure is recorded and propagated: when _build has   *)
(* exited after the build operation raised a failure, the directory        *)
(* exists, its record holds the candidate's spec with status "stopped",    *)
(* and the caller got that very failure; when the build operation          *)
(* completed normally the record holds status "done" and the caller got    *)
(* its artifact.                                                           *)
C3_BuildFailureRecorded ==
    \A c \in Callers :
        (Ended(c) /\ proc[c].exc # "none") =>
            /\ kind[proc[c].path] = "dir"
            /\ proc[c].exc \in Failures =>
                 /\ metaFile[proc[c].path] = RecordOf(c, "stopped")
                 /\ proc[c].pc = "err"
                 /\ proc[c].out = proc[c].exc
            /\ proc[c].exc = "ok" =>
                 /\ metaFile[proc[c].path] = RecordOf(c, "done")
                 /\ proc[c].pc = "ret"

\* A build was interrupted, and _build has exited.
C3_Witness ==
    \E c \in Callers :
        /\ proc[c].pc = "err"
        /\ proc[c].exc = "KeyboardInterrupt"
        /\ proc[c].built
        /\ metaFile[proc[c].path].status = "stopped"

C7_ExclusiveOwnership ==
    /\ \A p \in Paths :
         /\ Cardinality(owner[p]) <= 1
         /\ writers[p] \subseteq owner[p]
         /\ builders[p] \subseteq owner[p]
    /\ \A c \in Callers :
         /\ proc[c].pc \in {"wrun", "build", "wfinal"} =>
              proc[c].id \in owner[proc[c].path]
         /\ (Ended(c) /\ proc[c].out = "FileExistsError") =>
              /\ proc[c].pc = "err"
              /\ proc[c].id \notin owner[proc[c].path]
              /\ proc[c].id \notin writers[proc[c].path]
              /\ proc[c].id \notin builders[proc[c].path]
              /\ ~proc[c].built

\* Two calls reached _build for one path: one owns it and has recorded its
\* result, the other got the directory-already-exists failure.
C7_Witness ==
    \E c \in Callers :
        /\ proc[c].pc = "err"
        /\ proc[c].out = "FileExistsError"
        /\ owner[proc[c].path] # {}
        /\ metaFile[proc[c].path].status = "done"

(* C8 (SpecConfFair).  Waiting on an in-progress build: a configuration-   *)
(* only caller that is waiting on an entry stays waiting (it neither       *)
(* returns nor goes on to build) in every step taken while the entry's     *)
(* status is "running", so it never returns if the status never leaves     *)
(* "running"; and once the entry's status is "done", the waiter            *)
(* eventually returns an artifact bound to that entry, without having      *)
(* invoked the build operation.                                            *)
C8_WaitOnRunning ==
    /\ [][\A c \in Callers :
            (/\ proc[c].pc = "c_poll"
             /\ metaFile[proc[c].cur].status = "running") =>
                /\ proc'[c].pc = "c_poll"
                /\ proc'[c].cur = proc[c].cur]_vars
    /\ \A c \in Callers, p \in Paths :
         (/\ proc[c].pc = "c_poll"
          /\ proc[c].cur = p
          /\ metaFile[p].status = "done")
            ~> (/\ proc[c].pc = "ret"
                /\ proc[c].path = p
                /\ ~proc[c].built)

\* A caller waited on an entry and has returned it, without building.
C8_Witness ==
    \E c \in Callers :
        /\ proc[c].form = "conf"
        /\ proc[c].pc = "ret"
        /\ proc[c].cur = proc[c].path
        /\ ~proc[c].built
        /\ proc[c].id \notin owner[proc[c].path]

(* C9 (SpecSeq).  Type-mismatch detection in the path-only form: opening   *)
(* an existing directory as class cls fails with "wrong type" exactly      *)
(* when the type its record names is registered and is neither cls nor a   *)
(* subclass of cls; otherwise (the recorded type is cls, a subclass,       *)
(* unregistered or absent) the open returns a view bound to the path.  No  *)
(* step of a path-only call changes the directory.                         *)
C9_TypeMismatch ==
    /\ [](\A c \in Callers :
            (/\ proc[c].form = "path"
             /\ Ended(c)
             /\ kind[proc[c].path] = "dir") =>
                LET t   == ReadMeta(proc[c].path).spec.type
                    bad == /\ t \in Registered
                           /\ ~IsSubclass(t, proc[c].cls)
                IN  /\ bad => proc[c].pc = "err" /\ proc[c].out = "wrong_type"
                    /\ ~bad => proc[c].pc = "ret" /\ proc[c].out = "ok")
    /\ [][\A c \in Callers :
            (proc[c].form = "path" /\ proc'[c] # proc[c]) =>
                UNCHANGED fsVars]_vars

\* A directory recorded as a subclass was opened as its base class.
C9_Witness ==
    \E c \in Callers :
        /\ proc[c].form = "path"
        /\ proc[c].pc = "ret"
        /\ proc[c].cls = "A"
        /\ kind[proc[c].path] = "dir"
        /\ ReadMeta(proc[c].path).spec.type = "B"

(***************************************************************************)
(*                 Part II: array files (_write_h5, reads)                 *)
(*                                                                         *)
(* One extension-free key of one artifact.  The entry at <key>.h5 is       *)
(* absent, a file that is no array container, an empty directory, or an    *)
(* array container whose dataset "data" has an element type, a shape and   *)
(* contents.  Arrays are one-dimensional, of 1 to MaxLen elements.         *)
(***************************************************************************)
DTypes == {"i8", "f8"}
Elems  == {0, 1}

Arrays ==
    UNION {[dtype : DTypes, shape : {<<n>>}, data : [1 .. n -> Elems]] :
             n \in 1 .. MaxLen}

ArrayEntry(a) == [kind |-> "array", arr |-> a]

\* The dataset assignment f['data'][...] = val broadcasts val to the
\* dataset's shape the way NumPy does, and raises TypeError when it cannot:
\* a one-dimensional val fits when its length is the dataset's or is 1.
Broadcasts(src, dst) == src = dst \/ src = <<1>>

BroadcastTo(val, shape) ==
    [dtype |-> val.dtype,
     shape |-> shape,
     data  |-> [i \in 1 .. shape[1] |->
                  IF val.shape = shape THEN val.data[i] ELSE val.data[1]]]

\* The try block of _write_h5 runs to its end: the container opens, its
\* dataset has val's element type, and the assignment does not raise.
InPlace(e, val) ==
    /\ e.kind \in {"array", "growable"}
    /\ e.arr.dtype = val.dtype
    /\ Broadcasts(val.shape, e.arr.shape)

\* _write_h5: the entry at path after the call
WriteH5(e, val) ==
    IF InPlace(e, val)
    THEN [e EXCEPT !.arr = BroadcastTo(val, e.arr.shape)]
    ELSE ArrayEntry(val)

\* Artifact.__setitem__ with an array value: _write_h5(path.with_suffix('.h5'))
SetItemArray ==
    /\ nwrites < MaxWrites
    /\ \E val \in Arrays :
         /\ h5' = WriteH5(h5, val)
         /\ wrote' = val
    /\ got' = NoArray
    /\ nwrites' = nwrites + 1
    /\ UNCHANGED <<ext, extTypes, ctorVars, treeVars, rootVars, nsVars, pathVars, readVars>>

\* Artifact.__getitem__: the array file is probed first, and _read_h5
\* returns its dataset "data"
GetItemArray ==
    /\ h5.kind \in {"array", "growable"}
    /\ got' = h5.arr
    /\ UNCHANGED <<h5, wrote, nwrites, ext, extTypes, ctorVars, treeVars,
                 rootVars, nsVars, pathVars, readVars>>

InitH5 ==
    /\ InitFS({"absent"}, {NoFile})
    /\ InitGhost
    /\ h5 \in {NoEntry, [kind |-> "file", arr |-> NoArray],
               [kind |-> "dir", arr |-> NoArray]}
    /\ wrote = NoArray
    /\ got = NoArray
    /\ nwrites = 0
    /\ ext = <<>>
    /\ extTypes = {}
    /\ TreeIdle

NextH5 == SetItemArray \/ GetItemArray

SpecH5 == InitH5 /\ [][NextH5]_vars

(* C10 (SpecH5).  Array write is last-write-wins: after any sequence of    *)
(* array writes to a key, a read of the key yields an array equal to the   *)
(* last one written, in element type, shape and contents.                  *)
C10_LastWriteWins == got # NoArray => got = wrote

(***************************************************************************)
(* Extending an array file (_extend_h5).  A container that extend created  *)
(* holds a dataset that is resizable along its first axis ("growable").    *)
(* The arrays handed to extend have 0 to MaxLen rows.                      *)
(***************************************************************************)
Rows ==
    UNION {[dtype : DTypes, shape : {<<n>>}, data : [1 .. n -> Elems]] :
             n \in 0 .. MaxLen}

GrowableEntry(a) == [kind |-> "growable", arr |-> a]

\* 'data' not in f: the dataset is created empty, with val's element type
EmptyLike(val) == [dtype |-> val.dtype, shape |-> <<0>>, data |-> <<>>]

Appended_Front(a, val) ==
    [dtype |-> a.dtype,
     shape |-> <<a.shape[1] + val.shape[1]>>,
     data  |-> val.data \o a.data]

\* dset.resize(dset.len() + len(val), 0); dset[-len(val):] = val
\* The dataset keeps its element type; the values written here are
\* representable in either type.
Appended(a, val) ==
    [dtype |-> a.dtype,
     shape |-> <<a.shape[1] + val.shape[1]>>,
     data  |-> a.data \o val.data]

\* _extend_h5: the entry at path after the call, for an entry that is
\* absent or that extend created
ExtendH5(e, val) ==
    LET dset == IF e.kind = "absent" THEN EmptyLike(val) ELSE e.arr
    IN  IF val.shape[1] > 0
        THEN GrowableEntry(Appended(dset, val))
        ELSE GrowableEntry(dset)

\* Artifact.extend with an array value: _extend_h5(path.with_suffix('.h5'))
ExtendArray ==
    /\ nwrites < MaxWrites
    /\ h5.kind \in {"absent", "growable"}
    /\ \E val \in Rows :
         /\ h5' = ExtendH5(h5, val)
         /\ wrote' = val
         /\ ext' = ext \o val.data
         /\ extTypes' = extTypes \cup {val.dtype}
    /\ got' = NoArray
    /\ nwrites' = nwrites + 1
    /\ UNCHANGED <<ctorVars, treeVars, rootVars, nsVars, pathVars, readVars>>

InitExt == InitFS({"absent"}, {NoFile}) /\ InitGhost /\ H5Idle /\ TreeIdle

NextExt == ExtendArray \/ GetItemArray

SpecExt == InitExt /\ [][NextExt]_vars

(* C11 (SpecExt).  Extend accumulates in call order: starting from a key   *)
(* with no backing file, after any sequence of extends with arrays of one  *)
(* element type the stored array has that type, as many rows as the        *)
(* arrays together, and their rows in call order, and a read returns it;   *)
(* an extend with no rows leaves an existing array file as it is and       *)
(* creates an empty one where there was none.                              *)
C11_ExtendAccumulates ==
    /\ [](Cardinality(extTypes) = 1 =>
            /\ h5.kind = "growable"
            /\ h5.arr.dtype \in extTypes
            /\ h5.arr.shape = <<Len(ext)>>
            /\ h5.arr.data = ext
            /\ got # NoArray => got = h5.arr)
    /\ [][(nwrites' = nwrites + 1 /\ wrote'.shape = <<0>>) =>
            IF h5.kind = "absent"
            THEN h5' = GrowableEntry(EmptyLike(wrote'))
            ELSE h5' = h5]_vars

\* Three extends, the second one without rows, and a read.
C11_Witness ==
    /\ nwrites = 3
    /\ Cardinality(extTypes) = 1
    /\ Len(ext) = 2
    /\ ext[1] # ext[2]
    /\ got = h5.arr

(***************************************************************************)
(*          Part III: the entries of an artifact (item operations,         *)
(*                    attribute operations, listing)                       *)
(*                                                                         *)
(* One artifact object over an existing directory.  tree gives what the    *)
(* directory holds under each name; a directory entry is a nested          *)
(* artifact with entries of its own.  The contents of plain files are not  *)
(* modelled.  Each operation is one atomic step of a single caller.        *)
(***************************************************************************)
IsFile(t, n) == n \in DOMAIN t /\ t[n].kind \in {"file", "array", "growable"}

IsDir(t, n) == n \in DOMAIN t /\ t[n].kind = "dir"

ArrayResult(a)    == [type |-> "array", name |-> <<>>, arr |-> a]
PathResult(n)     == [type |-> "path", name |-> n, arr |-> NoArray]
ArtifactResult(n) == [type |-> "artifact", name |-> n, arr |-> NoArray]
MemberResult(n)   == [type |-> "member", name |-> n, arr |-> NoArray]

\* Artifact.__getitem__
GetItem(t, key) ==
    IF IsFile(t, WithSuffixH5(key)) THEN ArrayResult(t[WithSuffixH5(key)].arr)
    ELSE IF IsFile(t, key) THEN PathResult(key)
    ELSE ArtifactResult(key)

\* _copy_file: whatever dst held is replaced by a copy of the file
CopyFile(t, key) == [t EXCEPT ![key] = FileNode]

\* MutableMapping.update(Artifact(path), val): Artifact(path) fails when
\* path is a file; each entry of val is written as an array into the nested
\* artifact, whose directory the first write creates.
UpdateSub(sub, m) ==
    [n \in SubNames |->
        IF \E k \in DOMAIN m : n = WithSuffixH5(k)
        THEN LET k == CHOOSE k \in DOMAIN m : n = WithSuffixH5(k)
             IN  WriteH5(sub[n], m[k])
        ELSE sub[n]]

Update(t, key, m) ==
    IF IsFile(t, key) \/ DOMAIN m = {} THEN t
    ELSE [t EXCEPT ![key] = DirNode(UpdateSub(t[key].sub, m))]

\* Artifact.__setitem__: the directory after self[key] = val.  A failed
\* assertion on the key's suffix leaves it as it was.
SetItem(t, key, val) ==
    IF val.type = "path"
    THEN IF Suffix(key) # <<>> THEN CopyFile(t, key) ELSE t
    ELSE IF val.type = "mapping"
    THEN IF Suffix(key) = <<>> THEN Update(t, key, val.map) ELSE t
    ELSE IF Suffix(key) = <<>>
         THEN [t EXCEPT ![WithSuffixH5(key)] =
                  LeafNode(WriteH5(LeafOf(t[WithSuffixH5(key)]), val.arr))]
         ELSE t

\* Artifact.__delitem__
DelItem(t, key) ==
    IF IsFile(t, WithSuffixH5(key)) THEN [t EXCEPT ![WithSuffixH5(key)] = NoNode]
    ELSE IF IsFile(t, key) THEN [t EXCEPT ![key] = NoNode]
    ELSE [t EXCEPT ![key] = NoNode]

\* _extend_file: the file is created if need be; a directory at dst makes
\* open() fail
ExtendFile(t, key) == IF IsDir(t, key) THEN t ELSE [t EXCEPT ![key] = FileNode]

\* Artifact.extend with a path or an array: the directory after the call.
\* A dataset that _write_h5 created is not chunked, and resize raises on it.
ExtendItem(t, key, val) ==
    IF val.type = "path"
    THEN IF Suffix(key) # <<>> THEN ExtendFile(t, key) ELSE t
    ELSE IF Suffix(key) = <<>> /\ t[WithSuffixH5(key)].kind # "array"
         THEN [t EXCEPT ![WithSuffixH5(key)] =
                  LeafNode(ExtendH5(LeafOf(t[WithSuffixH5(key)]), val.arr))]
         ELSE t

\* Artifact.__len__: the number of entries that glob('[!_]*') lists
ArtifactLen(t) == Cardinality({n \in DOMAIN t : t[n].kind # "absent" /\ IsPublic(n)})

\* Artifact.__iter__: the field names yielded, each with the number of
\* entries that yield it
Yielded(t) ==
    LET listed == {n \in DOMAIN t : t[n].kind # "absent" /\ IsPublic(n)}
    IN  [f \in {FieldName(n) : n \in listed} |->
            Cardinality({n \in listed : FieldName(n) = f})]

Op(op, key, val) == [op |-> op, key |-> key, val |-> val]

SetItemStep ==
    /\ nops < MaxOps
    /\ \E key \in Keys, val \in Values :
         /\ tree' = SetItem(tree, key, val)
         /\ lastOp' = Op("setitem", key, val)
    /\ nops' = nops + 1
    /\ UNCHANGED <<cached, ctorVars, h5Vars, rootVars, nsVars, pathVars, readVars>>

DelItemStep ==
    /\ nops < MaxOps
    /\ \E key \in Keys :
         /\ tree' = DelItem(tree, key)
         /\ lastOp' = Op("delitem", key, NoVal)
    /\ nops' = nops + 1
    /\ UNCHANGED <<cached, ctorVars, h5Vars, rootVars, nsVars, pathVars, readVars>>

ExtendStep ==
    /\ nops < MaxOps
    /\ \E key \in Keys, val \in {v \in Values : v.type # "mapping"} :
         /\ tree' = ExtendItem(tree, key, val)
         /\ lastOp' = Op("extend", key, val)
    /\ nops' = nops + 1
    /\ UNCHANGED <<cached, ctorVars, h5Vars, rootVars, nsVars, pathVars, readVars>>

\* The names used in attribute syntax, and those among them that the
\* artifact object defines itself (keys is a method of the class).
AttrNames == {KeyY, KeyY__T, KeyKeys, KeyHidden}
Defined   == {KeyKeys}

GetAttr_NoReplace(t, c, name) ==
    IF name \in c THEN GetItem(t, name)
    ELSE IF name \in Defined THEN MemberResult(name)
    ELSE GetItem(t, name)

\* Artifact.__getattribute__, then Artifact.__getattr__: a cached key is
\* set anew from self[key] and found as an instance attribute; any other
\* name is looked up on the object first, and __getattr__ runs only when
\* that lookup fails.
GetAttr(t, c, name) ==
    IF name \in c THEN GetItem(t, name)
    ELSE IF name \in Defined THEN MemberResult(name)
    ELSE GetItem(t, ReplaceDunder(name))

\* Artifact.__setattr__
SetAttrStep ==
    /\ nops < MaxOps
    /\ \E name \in AttrNames, val \in Values :
         /\ tree' = SetItem(tree, ReplaceDunder(name), val)
         /\ lastOp' = Op("setattr", name, val)
    /\ nops' = nops + 1
    /\ UNCHANGED <<cached, ctorVars, h5Vars, rootVars, nsVars, pathVars, readVars>>

\* Artifact.__delattr__
DelAttrStep ==
    /\ nops < MaxOps
    /\ \E name \in AttrNames :
         /\ tree' = DelItem(tree, ReplaceDunder(name))
         /\ lastOp' = Op("delattr", name, NoVal)
    /\ nops' = nops + 1
    /\ UNCHANGED <<cached, ctorVars, h5Vars, rootVars, nsVars, pathVars, readVars>>

\* Artifact.__dir__: the cache is emptied, then every field name that the
\* object does not define is materialized and cached
DirStep ==
    /\ nops < MaxOps
    /\ cached' = DOMAIN Yielded(tree) \ Defined
    /\ lastOp' = Op("dir", <<>>, NoVal)
    /\ nops' = nops + 1
    /\ UNCHANGED <<tree, ctorVars, h5Vars, rootVars, nsVars, pathVars, readVars>>

\* _build's write_meta: the metadata record is a file of the directory
WriteMetaStep ==
    /\ nops < MaxOps
    /\ tree' = [tree EXCEPT ![MetaName] = FileNode]
    /\ lastOp' = Op("write_meta", MetaName, NoVal)
    /\ nops' = nops + 1
    /\ UNCHANGED <<cached, ctorVars, h5Vars, rootVars, nsVars, pathVars, readVars>>

InitTree == InitFS({"absent"}, {NoFile}) /\ InitGhost /\ H5Idle /\ TreeIdle

NextTree ==
    \/ SetItemStep
    \/ DelItemStep
    \/ ExtendStep
    \/ SetAttrStep
    \/ DelAttrStep
    \/ DirStep
    \/ WriteMetaStep

SpecTree == InitTree /\ [][NextTree]_vars

RECURSIVE Total(_)
\* The sum of the values of a function to the naturals
Total(f) ==
    IF DOMAIN f = {} THEN 0
    ELSE LET x == CHOOSE x \in DOMAIN f : TRUE
         IN  f[x] + Total([y \in DOMAIN f \ {x} |-> f[y]])

(* C12 (SpecTree).  Non-public entries are invisible: in every state of    *)
(* the artifact's directory, len counts exactly the entries whose name     *)
(* does not start with "_", iteration yields as many names as len counts,  *)
(* an array file <name>.h5 is yielded as <name> and every other counted    *)
(* entry under its full name, and nothing else is yielded.                 *)
C12_NonPublicInvisible ==
    LET present == {n \in DiskNames : tree[n].kind # "absent"}
        counted == {n \in present : n[1] # "_"}
        arrays  == {n \in counted : tree[n].kind \in {"array", "growable"}}
        names   == DOMAIN Yielded(tree)
    IN  /\ ArtifactLen(tree) = Cardinality(counted)
        /\ Total(Yielded(tree)) = ArtifactLen(tree)
        /\ \A n \in arrays : \E f \in names : n = f \o H5Suffix
        /\ \A n \in counted \ arrays : n \in names
        /\ \A f \in names :
             \/ f \in counted \ arrays
             \/ f \o H5Suffix \in arrays

\* The directory holds its metadata record, a non-public array file, and
\* both an array file and a nested artifact for the key "y".
C12_Witness ==
    /\ tree[MetaName].kind = "file"
    /\ tree[WithSuffixH5(KeyY)].kind = "array"
    /\ tree[KeyY].kind = "dir"
    /\ ArtifactLen(tree) = 2
    /\ Yielded(tree)[KeyY] = 2

HasDot(k) == \E i \in 1 .. Len(k) : k[i] = "."

HasDunder(k) == \E i \in 1 .. Len(k) - 1 : k[i] = "_" /\ k[i + 1] = "_"

RECURSIVE DunderName(_)
\* The attribute name for key k: every "." written as "__"
DunderName(k) ==
    IF k = <<>> THEN <<>>
    ELSE (IF k[1] = "." THEN <<"_", "_">> ELSE <<k[1]>>) \o DunderName(Tail(k))

\* The attribute operation that a step performed, if any
DidAttr(op, name) ==
    /\ nops' = nops + 1
    /\ lastOp'.op = op
    /\ lastOp'.key = name

GetRootDir_Shared(c) == IF ctx[1] = Unset THEN DefaultRoot ELSE ctx[1]

\* get_root_dir: getattr(context, 'root_dir', Path('.'))
GetRootDir(c) == IF ctx[c] = Unset THEN DefaultRoot ELSE ctx[c]

\* set_root_dir
SetRootDir(c) ==
    \E v \in Roots \cup {None} :
        /\ ctx' = [ctx EXCEPT ![c] = IF v # None THEN v ELSE DefaultRoot]
        /\ lastCall' = [NoCall EXCEPT !.op = "set_root_dir", !.caller = c,
                                      !.root = v]
        /\ UNCHANGED <<rootFS, ctorVars, h5Vars, tree, cached, lastOp, nops, nsVars,
                     pathVars, readVars>>

RootSpecs == [type : {"A"}, conf : Confs]

\* Path(get_root_dir()).glob('*')
RootEntries(r) == {p \in Paths : rootFS[r][p] # NoDir}

\* _new_artifact_path, under root r
RootFreeIdx(r, t) == {i \in 0 .. MaxIdx : rootFS[r][GenPath(t, i)] = NoDir}

RootNewPath(r, t) ==
    GenPath(t, CHOOSE i \in RootFreeIdx(r, t) : \A j \in RootFreeIdx(r, t) : i <= j)

\* _artifact_from_conf run without interleaving: an entry of the root whose
\* record equals the candidate's spec with status done is returned;
\* otherwise a new directory of the root is built.
ConstructConf(c) ==
    \E spec \in RootSpecs :
        LET r    == GetRootDir(c)
            done == {p \in RootEntries(r) :
                        /\ SpecMatches(rootFS[r][p], spec)
                        /\ rootFS[r][p].status = "done"}
            call == [NoCall EXCEPT !.op = "conf", !.caller = c, !.root = r,
                                   !.spec = spec]
        IN  /\ IF done # {}
               THEN /\ \E p \in done : lastCall' = [call EXCEPT !.path = p]
                    /\ UNCHANGED rootFS
               ELSE /\ RootFreeIdx(GetRootDir(c), spec.type) # {}
                    /\ \E res \in {"ok"} \cup Failures :
                         LET p == RootNewPath(GetRootDir(c), spec.type)
                         IN  /\ rootFS' = [rootFS EXCEPT ![GetRootDir(c)][p] =
                                   [spec |-> spec, status |-> FinalStatus(res)]]
                             /\ lastCall' = [call EXCEPT !.path = p,
                                                         !.built = TRUE]
            /\ UNCHANGED <<ctx, ctorVars, h5Vars, tree, cached, lastOp, nops, nsVars,
                     pathVars, readVars>>

InitRoot == InitFS({"absent"}, {NoFile}) /\ InitGhost /\ H5Idle /\ TreeIdle

NextRoot == \E c \in Callers : SetRootDir(c) \/ ConstructConf(c)

SpecRoot == InitRoot /\ [][NextRoot]_vars

(* C14 (SpecRoot).  Root-directory scoping: a configuration-only           *)
(* construction returns or builds a direct entry of the root that is       *)
(* active in the calling thread, reuses an entry only if that root holds   *)
(* it with an equal spec and status done (a done directory with an equal   *)
(* spec under another root does not keep it from building), and leaves     *)
(* every other root as it was; set_root_dir in one thread changes the      *)
(* root of that thread alone, to the given directory, or to the default    *)
(* when given the absent value.                                            *)
C14_RootScoping ==
    [][\A c \in Callers :
         /\ (lastCall' # lastCall /\ lastCall'.op = "conf"
                /\ lastCall'.caller = c) =>
              LET r == IF ctx[c] = Unset THEN DefaultRoot ELSE ctx[c]
                  p == lastCall'.path
              IN  /\ \A q \in Roots \ {r} : rootFS'[q] = rootFS[q]
                  /\ \A x \in Paths \ {p} : rootFS'[r][x] = rootFS[r][x]
                  /\ rootFS'[r][p].spec = lastCall'.spec
                  /\ IF rootFS[r][p] = NoDir
                     THEN /\ lastCall'.built
                          /\ \A x \in Paths :
                               ~(/\ rootFS[r][x].spec = lastCall'.spec
                                 /\ rootFS[r][x].status = "done")
                     ELSE /\ ~lastCall'.built
                          /\ rootFS[r][p].status = "done"
                          /\ rootFS' = rootFS
         /\ (lastCall' # lastCall /\ lastCall'.op = "set_root_dir"
                /\ lastCall'.caller = c) =>
              /\ GetRootDir(c)' = IF lastCall'.root = None
                                  THEN DefaultRoot ELSE lastCall'.root
              /\ \A d \in Callers \ {c} : GetRootDir(d)' = GetRootDir(d)
              /\ rootFS' = rootFS]_vars

\* A spec that is done under the default root has been built again under
\* another root, by a thread that had set that root.
C14_Witness ==
    /\ lastCall.op = "conf"
    /\ lastCall.built
    /\ lastCall.root = "r1"
    /\ \E p \in Paths :
         /\ rootFS[DefaultRoot][p].spec = lastCall.spec
         /\ rootFS[DefaultRoot][p].status = "done"
    /\ \E d \in Callers : ctx[d] = Unset

(***************************************************************************)
(* SpecMeta: callers construct by path, by configuration, and by path and  *)
(* configuration, interleaved, over a root whose entry "x" may be a        *)
(* directory with a missing or malformed metadata file.                    *)
(***************************************************************************)
InitMeta ==
    /\ InitFS({"absent", "dir"}, {NoFile} \cup MalformedMetas)
    /\ InitGhost
    /\ H5Idle
    /\ TreeIdle

MetaStep(c) ==
    \/ StartPath(c, {"Artifact", "A", "C"}, {X0})
    \/ StartConf(c, {CandidateSpec("A", 1)})
    \/ StartPathConf(c, {CandidateSpec("A", 1)}, {X0})
    \/ PathReadMeta(c)
    \/ PathCheck(c)
    \/ ConfGlob(c)
    \/ ConfReadEntry(c)
    \/ ConfPoll(c)
    \/ ConfNewPath(c)
    \/ PCExists(c)
    \/ PCReadMeta(c)
    \/ PCPoll(c)
    \/ PCStatus(c)
    \/ Mkdir(c)
    \/ WriteRunning(c)
    \/ RunBuild(c)
    \/ WriteFinal(c)
    \/ Finish(c)

NextMeta == \E c \in Callers : MetaStep(c)

SpecMeta == InitMeta /\ [][NextMeta]_vars

\* p is a directory whose metadata file is missing or malformed.
NoValidRecord(p) ==
    /\ kind[p] = "dir"
    /\ (metaFile[p] = NoFile \/ metaFile[p] \in MalformedMetas)

\* What a step of caller c does about p.
TreatedAsDefault(c, p) ==
    /\ (proc[c].form = "conf" /\ proc[c].pc \in {"c_next", "c_poll"}) =>
         /\ proc'[c].pc = "c_poll" => proc'[c].cur # p
         /\ proc'[c].pc = "ret" => proc'[c].path # p
    /\ (proc[c].pc = "pc_meta" /\ proc[c].path = p) =>
         /\ proc'[c].pc = "err"
         /\ proc'[c].out = "incompatible_spec"
    /\ (proc[c].pc = "p_check" /\ proc[c].path = p) =>
         /\ proc'[c].pc = "ret"
         /\ proc'[c].path = p

(* C15 (SpecMeta).  Absent or malformed metadata is never an error: while  *)
(* a path does not exist, or is a directory with no metadata file or with  *)
(* one that is unparsable, lacks spec or status, has a spec that is no     *)
(* mapping or a status that is no string, reading its metadata gives       *)
(* exactly {spec: absent, status: done}; and no step of a                  *)
(* configuration-only scan returns or starts waiting on such a directory,  *)
(* a path-and-configuration call that reads it does not wait on it (it     *)
(* fails with "incompatible spec"), and the path-only form opens it,       *)
(* whatever the requested type.                                            *)
C15_MalformedMetaIsDefault ==
    /\ [](\A p \in Paths :
            (kind[p] = "absent" \/ NoValidRecord(p)) => ReadMeta(p) = DefaultMeta)
    /\ [][\A c \in Callers, p \in Paths :
            (NoValidRecord(p) /\ proc'[c] # proc[c]) => TreatedAsDefault(c, p)]_vars

\* A directory whose record has the spec of an A but a status that is no
\* string has been opened as a C, and a scan for that spec has passed it.
C15_Witness ==
    /\ kind[X0] = "dir"
    /\ metaFile[X0] = [spec |-> CandidateSpec("A", 1), status |-> "notastring"]
    /\ \E c \in Callers :
         /\ proc[c].form = "path"
         /\ proc[c].cls = "C"
         /\ proc[c].pc = "ret"
    /\ \E c \in Callers :
         /\ proc[c].form = "conf"
         /\ proc[c].pc = "mkdir"

(***************************************************************************)
(*                  Part V: Namespace (_namespaces.py)                     *)
(*                                                                         *)
(* A Namespace is a dict whose __getattr__, __setattr__ and __delattr__    *)
(* go to the dict's items.  Python calls __getattr__ only when the normal  *)
(* attribute lookup has failed, and the normal lookup finds the            *)
(* attributes of the type dict.                                            *)
(***************************************************************************)
\* Names the normal attribute lookup finds on every dict (two of them).
DictAttrs == {"keys", "items"}

Value(v)  == [res |-> "value", val |-> v]
Error(e)  == [res |-> e, val |-> Missing]

\* dict.__getitem__(self, key)
ItemRead(k) == IF ns[k] # Missing THEN Value(ns[k]) ELSE Error("KeyError")

\* getattr(self, key): the attribute of dict if there is one, else
\* Namespace.__getattr__
AttrRead(k) ==
    IF k \in DictAttrs THEN Value("method")
    ELSE IF ItemRead(k).res = "KeyError" THEN Error("AttributeError")
    ELSE ItemRead(k)

\* self[key] = val, and Namespace.__setattr__: dict.__setitem__(self, key, val)
NsSet(op) ==
    \E k \in NsKeys, v \in NsVals :
        /\ ns' = [ns EXCEPT ![k] = v]
        /\ nsLast' = [op |-> op, key |-> k, val |-> v]

\* del self[key], and Namespace.__delattr__: dict.__delitem__(self, key)
NsDel(op) ==
    \E k \in NsKeys :
        /\ ns' = [ns EXCEPT ![k] = Missing]
        /\ nsLast' = [op |-> op, key |-> k,
                      val |-> IF ns[k] = Missing THEN "KeyError" ELSE "none"]

NsSetItem == NsSet("setitem") /\ UNCHANGED <<ctorVars, h5Vars, treeVars, rootVars, pathVars, readVars>>
NsSetAttr == NsSet("setattr") /\ UNCHANGED <<ctorVars, h5Vars, treeVars, rootVars, pathVars, readVars>>
NsDelItem == NsDel("delitem") /\ UNCHANGED <<ctorVars, h5Vars, treeVars, rootVars, pathVars, readVars>>
NsDelAttr == NsDel("delattr") /\ UNCHANGED <<ctorVars, h5Vars, treeVars, rootVars, pathVars, readVars>>

InitNs == InitFS({"absent"}, {NoFile}) /\ InitGhost /\ H5Idle /\ TreeIdle

NextNs == NsSetItem \/ NsSetAttr \/ NsDelItem \/ NsDelAttr

SpecNs == InitNs /\ [][NextNs]_vars

(* C16 (SpecNs).  Namespace dual view: after any sequence of item-style    *)
(* and attribute-style sets and deletes, for every key k (the names of     *)
(* dict's own methods included) reading k as an attribute succeeds exactly *)
(* when reading it as an item succeeds, and then both give the same value; *)
(* a key deleted through either view is gone from both; and a missing key  *)
(* reads as AttributeError as an attribute and as KeyError as an item.     *)
C16_DualView ==
    \A k \in NsKeys :
        /\ AttrRead(k).res = "value" <=> ItemRead(k).res = "value"
        /\ ItemRead(k).res = "value" => AttrRead(k) = ItemRead(k)
        /\ ItemRead(k).res # "value" =>
             /\ ItemRead(k).res = "KeyError"
             /\ AttrRead(k).res = "AttributeError"
        /\ (nsLast.op \in {"delitem", "delattr"} /\ nsLast.key = k) =>
             /\ ItemRead(k).res = "KeyError"
             /\ AttrRead(k).res = "AttributeError"

(***************************************************************************)
(*       Further properties of construction (Part I's specifications)      *)
(***************************************************************************)
\* The entries a sequential scan by c has passed whose record has c's spec
\* and status stopped.  (In a sequential run no entry appears during a
\* scan, so an entry that is not left to visit has been visited.)
StoppedMatchesPassed(c) ==
    {q \in Paths \ proc[c].todo :
        /\ kind[q] = "dir"
        /\ metaFile[q] = RecordOf(c, "stopped")}

(* C17 (SpecSeqConf).  Configuration-only construction is decided by the   *)
(* first matching entry in scan order: a scan that has met a matching      *)
(* entry with status stopped builds fresh at a new path; it does not go on *)
(* to return another matching entry found later in the scan.               *)
C17_FirstMatchDecides ==
    [][\A c \in Callers :
         (/\ proc[c].form = "conf"
          /\ proc[c].pc = "c_next"
          /\ StoppedMatchesPassed(c) # {})
         => proc'[c].pc # "ret"]_vars

\* What a step of the scan of c does, in the three ways it can go on.
ScanStep(c) ==
    /\ proc'[c].pc = "ret" =>
         /\ ReadMeta(proc'[c].path) = RecordOf(c, "done")
         /\ UNCHANGED fsVars
    /\ (proc'[c].pc = "c_next" /\ proc[c].pc = "c_next") =>
         \E p \in proc[c].todo :
            /\ proc'[c].todo = proc[c].todo \ {p}
            /\ ReadMeta(p) \notin {RecordOf(c, "done"), RecordOf(c, "running")}
    /\ proc'[c].pc = "mkdir" =>
         /\ proc[c].todo = {}
         /\ ~Exists(proc'[c].path)

(* C17 as amended (SpecSeqConf).  A matching entry with status stopped is  *)
(* passed over like an entry that does not match: the scan goes on with    *)
(* the entries it has yet to visit and returns the first of them whose     *)
(* record has the candidate's spec and status done (after waiting, if it   *)
(* was running); only a scan that has visited every entry without          *)
(* returning one builds fresh, at a generated path that no entry has.  A   *)
(* directory with status stopped is left unchanged.                        *)
C17_StoppedMatchPassedOver ==
    /\ [][\A c \in Callers :
            (/\ proc[c].form = "conf"
             /\ proc[c].pc \in {"c_next", "c_poll"}
             /\ proc'[c] # proc[c]) => ScanStep(c)]_vars
    /\ [][\A q \in Paths :
            metaFile[q].status = "stopped" =>
               /\ metaFile'[q] = metaFile[q]
               /\ kind'[q] = kind[q]]_vars

\* A scan that has passed an entry with its spec and status stopped is
\* about to visit an entry with its spec and status done.
C17_Witness ==
    \E c \in Callers :
       /\ proc[c].form = "conf"
       /\ proc[c].pc = "c_next"
       /\ StoppedMatchesPassed(c) # {}
       /\ \E p \in proc[c].todo : ReadMeta(p) = RecordOf(c, "done")

(* C18 (Spec).  Atomic creation of directory and status record: in every   *)
(* state, a directory that _build has created holds its status record:     *)
(* reading its metadata never gives the default {spec: absent, status:     *)
(* done}, so no caller can see the directory exist without the record.     *)
C18_AtomicCreation ==
    \A p \in Paths :
        (kind[p] = "dir" /\ owner[p] # {}) => ReadMeta(p) # DefaultMeta

(***************************************************************************)
(*        Part VI: path tokens (_resolve_path) and the constructor         *)
(*        forms that take a path                                           *)
(*                                                                         *)
(* A path is the sequence of its parts, as pathlib keeps them: "/" first   *)
(* if it is absolute, no "." part, and Path('.') the empty sequence.       *)
(* There are no symbolic links.                                            *)
(***************************************************************************)
Cwd  == <<"/", "w">>        \* the working directory
Home == <<"/", "h">>        \* the home directory of the user

Segs == {"@", "~", "..", "d"}

\* The paths a caller gives: relative ones of one or two parts, and /d.
GivenPaths ==
    {<<a>> : a \in Segs} \cup {<<a, b>> : a \in Segs, b \in {"d", ".."}}
        \cup {<<"@", "~">>, <<"/", "d">>}

\* The parts of the root directory r: Path('.') by default, else /r.
RootParts(r) == IF r = DefaultRoot THEN <<>> ELSE <<"/", r>>

IsAbsolute(path) == path # <<>> /\ path[1] = "/"

\* path.expanduser()
ExpandUser(path) ==
    IF path # <<>> /\ path[1] = "~" THEN Home \o Tail(path) ELSE path

\* path.resolve(): the path made absolute, its ".." parts followed
RECURSIVE Collapse(_, _)
Collapse(done, rest) ==
    IF rest = <<>> THEN done
    ELSE IF Head(rest) = ".."
         THEN Collapse(IF Len(done) > 1 THEN SubSeq(done, 1, Len(done) - 1)
                       ELSE done, Tail(rest))
         ELSE Collapse(Append(done, Head(rest)), Tail(rest))

Resolve(path) == Collapse(<<>>, IF IsAbsolute(path) THEN path ELSE Cwd \o path)

ResolvePath_AsGiven(c, path) == path

\* _resolve_path, called in thread c
ResolvePath(c, path) ==
    LET anchored == IF path[1] = "@"
                    THEN RootParts(GetRootDir(c)) \o Tail(path)
                    ELSE path
    IN  Resolve(ExpandUser(anchored))

\* Artifact(path): _artifact_from_path(cls, _resolve_path(path)), for a type
\* with no build operation
NewFromPath(c) ==
    \E given \in GivenPaths :
        /\ lastNew' = [NoNew EXCEPT !.form = "path", !.caller = c,
                          !.given = given, !.root = GetRootDir(c),
                          !.path = ResolvePath(c, given)]
        /\ UNCHANGED <<made, ctorVars, h5Vars, treeVars, rootVars, nsVars, readVars>>

\* Artifact(path, conf): _artifact_from_path_and_conf(cls,
\* _resolve_path(path), conf), for one type and configuration whose builds
\* succeed: the directory is built unless it exists
NewFromPathAndConf(c) ==
    \E given \in GivenPaths :
        LET path == ResolvePath(c, given)
        IN  /\ path \notin made => Cardinality(made) < MaxMade
            /\ made' = made \cup {path}
            /\ lastNew' = [NoNew EXCEPT !.form = "pathconf", !.caller = c,
                              !.given = given, !.root = GetRootDir(c),
                              !.path = path, !.built = path \notin made]
            /\ UNCHANGED <<ctorVars, h5Vars, treeVars, rootVars, nsVars, readVars>>

InitPath == InitFS({"absent"}, {NoFile}) /\ InitGhost /\ H5Idle /\ TreeIdle

NextPath ==
    \E c \in Callers : SetRootDir(c) \/ NewFromPath(c) \/ NewFromPathAndConf(c)

SpecPath == InitPath /\ [][NextPath]_vars

(* C19 (SpecPath).  Path tokens are resolved only in the path-only form:   *)
(* the path-and-configuration form binds the artifact to, and checks and   *)
(* builds at, the path exactly as the caller gave it (a leading @ is not   *)
(* replaced by the root directory; ~, . and .. are not resolved).          *)
C19_ResolvedOnlyInPathForm ==
    lastNew.form = "pathconf" =>
        /\ lastNew.path = lastNew.given
        /\ lastNew.given \in made

\* The root directory as an absolute path.
AbsRoot(r) == IF r = DefaultRoot THEN Cwd ELSE RootParts(r)

(* C19 as amended (SpecPath).  Path tokens are resolved in both forms that *)
(* take a path: the path-only form and the path-and-configuration form     *)
(* bind the artifact to resolve(path), and the latter checks and builds    *)
(* there.  The bound path is absolute and has no .. part; @/d is d under   *)
(* the calling thread's root directory, ~/d is d under the home directory, *)
(* d/.. is the working directory, and an absolute path is kept.            *)
C19_ResolvedInBothForms ==
    lastNew.form \in {"path", "pathconf"} =>
        /\ IsAbsolute(lastNew.path)
        /\ \A i \in 1 .. Len(lastNew.path) : lastNew.path[i] # ".."
        /\ lastNew.given = <<"@", "d">> =>
             lastNew.path = Append(AbsRoot(lastNew.root), "d")
        /\ lastNew.given = <<"~", "d">> => lastNew.path = Append(Home, "d")
        /\ lastNew.given = <<"d", "..">> => lastNew.path = Cwd
        /\ lastNew.given = <<"/", "d">> => lastNew.path = <<"/", "d">>
        /\ lastNew.form = "pathconf" => lastNew.path \in made

\* A thread whose root directory is r1 has built an artifact by path and
\* configuration at @/d.
C19_Witness ==
    /\ lastNew.form = "pathconf"
    /\ lastNew.given = <<"@", "d">>
    /\ lastNew.root = "r1"
    /\ lastNew.built
    /\ lastNew.path = <<"/", "r1", "d">>

(***************************************************************************)
(*            Further properties of item operations (SpecTree)             *)
(***************************************************************************)
\* The last operation wrote a mapping to a key that has no extension.
MappingWritten(op) ==
    /\ op.op = "setitem"
    /\ op.val.type = "mapping"
    /\ Suffix(op.key) = <<>>

(* C20 (SpecTree).  Mapping write is a structural merge: writing a         *)
(* mapping M to an extension-free key k writes every entry of M into the   *)
(* nested artifact at k, leaves every other entry of the nested artifact   *)
(* (its metadata record included) and every sibling of k unchanged, and    *)
(* afterwards reading artifact[k] gives the nested artifact and reading    *)
(* each key of M from it gives the value written.                          *)
C20_MappingWriteMerges ==
    /\ [](MappingWritten(lastOp) =>
            \A a \in DOMAIN lastOp.val.map :
               /\ GetItem(tree, lastOp.key) = ArtifactResult(lastOp.key)
               /\ GetItem(tree[lastOp.key].sub, a) = ArrayResult(lastOp.val.map[a]))
    /\ [][(nops' = nops + 1 /\ MappingWritten(lastOp')) =>
            /\ \A n \in DiskNames \ {lastOp'.key} : tree'[n] = tree[n]
            /\ \A n \in SubNames :
                  (\A a \in DOMAIN lastOp'.val.map : n # WithSuffixH5(a)) =>
                     tree'[lastOp'.key].sub[n] = tree[lastOp'.key].sub[n]]_vars

(***************************************************************************)
(*      Part VII: writing and extending with mappings whose entries        *)
(*      come in an order                                                   *)
(*                                                                         *)
(* MutableMapping.update and the loop of Artifact.extend take the entries  *)
(* of the mapping one by one, in the mapping's order, each through the     *)
(* nested artifact's __setitem__ or extend; an entry that raises ends the  *)
(* call there.  A mapping is given here as the sequence of its entries.    *)
(***************************************************************************)
KeyBT     == <<"b", ".", "t">>
WriteKeys == {KeyY, KeyYT}

Entries     == [key : SubKeys \cup {KeyBT}, arr : ItemArrays]
OrdMappings ==
    {<<>>} \cup {<<e1>> : e1 \in Entries}
           \cup {es \in [1 .. 2 -> Entries] : es[1].key # es[2].key}

EntriesVal(seq) == [type |-> "entries", arr |-> NoArray, map |-> NoMap,
                    seq |-> seq]

WriteValues == {v \in Values : v.type # "mapping"}
                  \cup {EntriesVal(seq) : seq \in OrdMappings}

\* Position of the first entry whose key has an extension, or Len(seq) + 1
FirstBad(seq) ==
    LET bad == {i \in 1 .. Len(seq) : Suffix(seq[i].key) # <<>>}
    IN  IF bad = {} THEN Len(seq) + 1
        ELSE CHOOSE i \in bad : \A j \in bad : i <= j

\* The first n entries of seq, as a mapping
MapOf(seq, n) ==
    [k \in {seq[i].key : i \in 1 .. n} |->
        seq[CHOOSE i \in 1 .. n : seq[i].key = k].arr]

WriteEntries_AllOrNothing(t, key, seq) ==
    IF FirstBad(seq) <= Len(seq) THEN t ELSE Update(t, key, MapOf(seq, Len(seq)))

\* MutableMapping.update(Artifact(path), val): the entries before the first
\* one whose key fails the assertion of the nested __setitem__ are written
WriteEntries(t, key, seq) == Update(t, key, MapOf(seq, FirstBad(seq) - 1))

\* for k in val: Artifact(path).extend(k, val[k]), on the entries of the
\* nested artifact: ends at the first entry whose key fails the assertion,
\* or whose array file cannot be resized
RECURSIVE ExtendSub(_, _)
ExtendSub(sub, seq) ==
    IF seq = <<>> THEN sub
    ELSE LET n == WithSuffixH5(Head(seq).key)
         IN  IF Suffix(Head(seq).key) # <<>> \/ sub[n].kind = "array" THEN sub
             ELSE ExtendSub([sub EXCEPT ![n] = ExtendH5(sub[n], Head(seq).arr)],
                            Tail(seq))

ExtendEntries(t, key, seq) ==
    IF IsFile(t, key) \/ ExtendSub(t[key].sub, seq) = t[key].sub THEN t
    ELSE [t EXCEPT ![key] = DirNode(ExtendSub(t[key].sub, seq))]

\* Artifact.__setitem__ with a path, an array or a mapping
SetItemOrd(t, key, val) ==
    IF val.type = "entries"
    THEN IF Suffix(key) = <<>> THEN WriteEntries(t, key, val.seq) ELSE t
    ELSE SetItem(t, key, val)

\* Artifact.extend with a path, an array or a mapping
ExtendOrd(t, key, val) ==
    IF val.type = "entries"
    THEN IF Suffix(key) = <<>> THEN ExtendEntries(t, key, val.seq) ELSE t
    ELSE ExtendItem(t, key, val)

SetItemOrdStep ==
    /\ nops < MaxOps
    /\ \E key \in WriteKeys, val \in WriteValues :
         /\ tree' = SetItemOrd(tree, key, val)
         /\ lastOp' = Op("setitem", key, val)
    /\ nops' = nops + 1
    /\ UNCHANGED <<cached, ctorVars, h5Vars, rootVars, nsVars, pathVars, readVars>>

ExtendOrdStep ==
    /\ nops < MaxOps
    /\ \E key \in WriteKeys, val \in WriteValues :
         /\ tree' = ExtendOrd(tree, key, val)
         /\ lastOp' = Op("extend", key, val)
    /\ nops' = nops + 1
    /\ UNCHANGED <<cached, ctorVars, h5Vars, rootVars, nsVars, pathVars, readVars>>

InitWrite == InitFS({"absent"}, {NoFile}) /\ InitGhost /\ H5Idle /\ TreeIdle

NextWrite == SetItemOrdStep \/ ExtendOrdStep

SpecWrite == InitWrite /\ [][NextWrite]_vars

\* The key of the operation breaks the extension requirement of its value.
KeyOffends(op) ==
    IF op.val.type = "path" THEN Suffix(op.key) = <<>>
    ELSE Suffix(op.key) # <<>>

\* An entry of the mapping written or extended has a key with an extension.
EntryOffends(op) ==
    /\ op.val.type = "entries"
    /\ FirstBad(op.val.seq) <= Len(op.val.seq)

(* C21 (SpecWrite).  Extension requirements are enforced without side      *)
(* effects: a write or extend of a path under a key with no extension, or  *)
(* of an array or mapping under a key with an extension, leaves the whole  *)
(* directory tree unchanged, and so does one of a mapping that has an      *)
(* entry whose key has an extension: no earlier entry of that mapping      *)
(* remains written.                                                        *)
C21_FailedWriteNoEffect ==
    [][(nops' = nops + 1 /\ (KeyOffends(lastOp') \/ EntryOffends(lastOp')))
          => tree' = tree]_vars

\* The entries of the mapping of op before the first offending one.
Before(op) == SubSeq(op.val.seq, 1, FirstBad(op.val.seq) - 1)

\* The same operation with another value.
Redo(op, val) ==
    IF op.op = "setitem" THEN SetItemOrd(tree, op.key, val)
    ELSE ExtendOrd(tree, op.key, val)

(* C21 as amended (SpecWrite).  A write or extend whose own key breaks the *)
(* extension requirement of its value leaves the whole directory tree      *)
(* unchanged.  One whose mapping has an entry with an offending key leaves *)
(* the tree as the same operation with only the entries before that entry  *)
(* leaves it: those entries stay written (or extended), the entries after  *)
(* it are not written, and nothing but the nested artifact changes.        *)
C21_FailedWriteKeepsEarlierEntries ==
    [][nops' = nops + 1 =>
          /\ KeyOffends(lastOp') => tree' = tree
          /\ (EntryOffends(lastOp') /\ ~KeyOffends(lastOp')) =>
               /\ tree' = Redo(lastOp', EntriesVal(Before(lastOp')))
               /\ \A n \in DiskNames \ {lastOp'.key} : tree'[n] = tree[n]
               /\ \A n \in SubNames :
                     (\A i \in 1 .. Len(Before(lastOp')) :
                         n # WithSuffixH5(Before(lastOp')[i].key))
                     => tree'[lastOp'.key].sub[n] = tree[lastOp'.key].sub[n]
               /\ (lastOp'.op = "setitem" /\ ~IsFile(tree, lastOp'.key)) =>
                    \A i \in 1 .. Len(Before(lastOp')) :
                       IsFile(tree'[lastOp'.key].sub,
                              WithSuffixH5(Before(lastOp')[i].key))]_vars

\* A mapping whose second entry has a key with an extension has been
\* written to y, and its first entry is in the nested artifact.
C21_Witness ==
    /\ lastOp.op = "setitem"
    /\ lastOp.key = KeyY
    /\ lastOp.val.type = "entries"
    /\ Len(lastOp.val.seq) = 2
    /\ FirstBad(lastOp.val.seq) = 2
    /\ tree[KeyY].kind = "dir"
    /\ tree[KeyY].sub[WithSuffixH5(lastOp.val.seq[1].key)].kind = "array"

(***************************************************************************)
(*              Part VIII: reading an array file (_read_h5)                *)
(*                                                                         *)
(* Each caller is a thread reading one array file.  The file is absent,    *)
(* busy (it exists, but opening it for reading in SWMR mode fails with an  *)
(* OSError other than "file not found": its writer has not yet entered     *)
(* SWMR mode) or ready.  _read_h5 retries by calling itself, so each retry *)
(* is one frame deeper on the thread's stack; RecursionLimit is the number *)
(* of frames of _read_h5 that the interpreter's recursion limit leaves     *)
(* room for.                                                               *)
(***************************************************************************)
FileStates == {"absent", "busy", "ready"}

\* artifact[key] reaches _read_h5(path)
ReadStart(c) ==
    /\ rd[c].pc \in {"idle", "ret", "err"}
    /\ rd' = [rd EXCEPT ![c] = [pc |-> "open", depth |-> 1, out |-> "none"]]
    /\ UNCHANGED <<rdFile, ctorVars, h5Vars, treeVars, rootVars, nsVars, pathVars>>

\* try: f = h5.File(path, 'r', libver='latest', swmr=True); return f['data']
\* except OSError as e: if 'errno = 2' in str(e): raise e
ReadOpen(c) ==
    /\ rd[c].pc = "open"
    /\ rd' = [rd EXCEPT ![c] =
          IF rdFile = "ready" THEN [@ EXCEPT !.pc = "ret", !.out = "data"]
          ELSE IF rdFile = "absent"
               THEN [@ EXCEPT !.pc = "err", !.out = "FileNotFound"]
          ELSE [@ EXCEPT !.pc = "sleep"]]
    /\ UNCHANGED <<rdFile, ctorVars, h5Vars, treeVars, rootVars, nsVars, pathVars>>

\* sleep(0.001); return _read_h5(path): the call raises RecursionError when
\* the stack has no room for another frame
ReadRetry(c) ==
    /\ rd[c].pc = "sleep"
    /\ rd' = [rd EXCEPT ![c] =
          IF @.depth < RecursionLimit
          THEN [@ EXCEPT !.pc = "open", !.depth = @ + 1]
          ELSE [@ EXCEPT !.pc = "err", !.out = "RecursionError"]]
    /\ UNCHANGED <<rdFile, ctorVars, h5Vars, treeVars, rootVars, nsVars, pathVars>>

\* The writer of the file, or a delete: the file changes state.
FileChange ==
    /\ rdFile' \in FileStates \ {rdFile}
    /\ UNCHANGED <<rd, ctorVars, h5Vars, treeVars, rootVars, nsVars, pathVars>>

InitRead == InitFS({"absent"}, {NoFile}) /\ InitGhost /\ H5Idle /\ TreeIdle

NextRead ==
    \/ \E c \in Callers : ReadStart(c) \/ ReadOpen(c) \/ ReadRetry(c)
    \/ FileChange

SpecRead == InitRead /\ [][NextRead]_vars

(* C22 (SpecRead).  Array read retries without bound: the only failure a   *)
(* read surfaces is "file does not exist", raised by the open that met the *)
(* missing file; however many opens in a row fail for another reason, the  *)
(* read neither gives up nor surfaces another failure, and it returns the  *)
(* dataset only from an open that succeeded.                               *)
C22_RetriesWithoutBound ==
    /\ [](\A c \in Callers : rd[c].pc = "err" => rd[c].out = "FileNotFound")
    /\ [][\A c \in Callers :
            /\ (rd[c].pc # "err" /\ rd'[c].pc = "err") =>
                  (rd[c].pc = "open" /\ rdFile = "absent")
            /\ (rd[c].pc # "ret" /\ rd'[c].pc = "ret") =>
                  (rd[c].pc = "open" /\ rdFile = "ready")
            /\ (rd[c].pc = "sleep" /\ rd'[c] # rd[c]) => rd'[c].pc = "open"]_vars

\* The kind of result a read gives for a written value.
KindRead(val) ==
    IF val.type = "path" THEN "path"
    ELSE IF val.type = "array" THEN "array"
    ELSE "artifact"

\* The names under which the directory may hold the entry of key k.
Backing(k) == IF Suffix(k) = <<>> THEN {k, WithSuffixH5(k)} ELSE {k}

(* C23 (SpecTree).  One backing entry per logical key, and delete affects  *)
(* only its own key: after any sequence of writes, extends and deletes,    *)
(* iteration yields no key twice; a read of the key just written gives the *)
(* kind of value written; and del artifact[k] leaves every entry of        *)
(* another key as it was, after which iteration no longer yields k.        *)
C23_OneEntryPerKey ==
    /\ [](\A f \in DOMAIN Yielded(tree) : Yielded(tree)[f] = 1)
    /\ []((lastOp.op = "setitem" /\ ~KeyOffends(lastOp)) =>
             GetItem(tree, lastOp.key).type = KindRead(lastOp.val))
    /\ [][(nops' = nops + 1 /\ lastOp'.op = "delitem") =>
             /\ \A n \in DiskNames \ Backing(lastOp'.key) : tree'[n] = tree[n]
             /\ lastOp'.key \notin DOMAIN Yielded(tree')]_vars

====
